---- MODULE Spec2Model ----
(***************************************************************************)
(* The file-based stores of newToolNoProblem (src/main.py): the session    *)
(* store (manage_learning_session), the progress store (track_progress,    *)
(* get_progress_summary), the lesson folder store (create_tool_folder,     *)
(* save_to_tool_folder, read_from_tool_folder) and the module assembler    *)
(* (assemble_module_file); and the command line loop of main().  The state *)
(* is the content of the working directory and the position of the loop;   *)
(* every operation is one atomic step (the program is single-threaded and  *)
(* each helper runs to completion).                                        *)
(***************************************************************************)
EXTENDS Integers, Sequences, FiniteSets, TLC

\* ------------------------------------------------------------------ bounds
\* The session files weigh at most MaxDisk units: a session file weighs 1 plus
\* its current_module plus the number of its modules_completed entries.  A
\* call that would write more is not made.
MaxDisk == 3
\* The progress files hold at most MaxMilestones milestones in all.
MaxMilestones == 3
\* The lessons/ tree holds at most MaxEntries directories and files in all.
MaxEntries == 4
\* The wall clock (datetime.now()) takes the values 0..MaxClock.
MaxClock == 1
\* The command line loop reads at most MaxLines lines.
MaxLines == 3
\* Where the three stores are used together, the session files, the
\* milestones and the lesson files weigh at most MaxShared in all.
MaxShared == 3

\* ------------------------------------------------------------------ inputs
\* Strings the code takes apart (lower(), replace()) are sequences of
\* one-character strings; the literal pieces of an f-string that no input
\* can contain ("session_", ".json") are single elements.
UserIds == { <<"u">>, <<"u", "_", "a">> }

\* Tool names of the session calls.  ("u_a", "b") and ("u", "A b") are two
\* pairs, and "A b" lower-cased with its space replaced is "a_b".
SessionTools == { <<"b">>, <<"A", " ", "b">> }

\* The four actions of manage_learning_session and two the code does not know.
Actions == { "start", "next_module", "complete_module", "get_current",
             "frobnicate", "Start" }

KnownActions == { "start", "next_module", "complete_module", "get_current" }

\* module_name arguments; "" is the parameter's default.
ModuleNames == { "", "Intro" }

VARIABLES
    files,      \* flat files of the working directory: file name -> JSON document
    lessons,    \* the lessons/ tree: its directories and its text files
    now,        \* the wall clock read by datetime.now()
    call,       \* the last call made (operation and arguments)
    result,     \* the dictionary that call returned
    before,     \* history: files and lessons as they were when that call was made
    nexts,      \* history: per session file, the successful next_module calls
                \* since the last start that wrote it
    tracked,    \* history: per user and tool name, the successful
                \* track_progress calls
    saved,      \* history: per folder and file name, the content of the last
                \* successful save
    cli         \* the command line loop of main(): its position, the lines it
                \* has read and the lines it has forwarded

vars == <<files, lessons, now, call, result, before, nexts, tracked, saved, cli>>

Disk == [ files |-> files, lessons |-> lessons ]

\* ------------------------------------------------------------ pure helpers
\* str.lower(), character by character.
LowerChar(c) ==
    CASE c = "A" -> "a"
      [] c = "B" -> "b"
      [] c = "U" -> "u"
      [] c = "E" -> "e"
      [] c = "H" -> "h"
      [] c = "I" -> "i"
      [] c = "L" -> "l"
      [] c = "P" -> "p"
      [] c = "Q" -> "q"
      [] c = "T" -> "t"
      [] c = "X" -> "x"
      [] OTHER   -> c

StrLower(s) == [i \in 1..Len(s) |-> LowerChar(s[i])]

\* str.replace(old, new) for one-character old and new.
StrReplace(s, old, new) == [i \in 1..Len(s) |-> IF s[i] = old THEN new ELSE s[i]]

\* str(n) of a natural number, as an f-string formats it.
Digit(d) ==
    CASE d = 0 -> "0" [] d = 1 -> "1" [] d = 2 -> "2" [] d = 3 -> "3"
      [] d = 4 -> "4" [] d = 5 -> "5" [] d = 6 -> "6" [] d = 7 -> "7"
      [] d = 8 -> "8" [] d = 9 -> "9"

RECURSIVE IntToStr(_)
IntToStr(n) == IF n < 10 THEN Digit(n) ELSE IntToStr(n \div 10) \o Digit(n % 10)

\* tool_name.lower().replace(' ', '_') : the slug of the session file name.
SessionSlug(tool_name) == StrReplace(StrLower(tool_name), " ", "_")

\* f"session_{user_id}_{slug}.json"
SessionFile(user_id, tool_name) ==
    <<"session_">> \o user_id \o <<"_">> \o SessionSlug(tool_name) \o <<".json">>

\* f"Module {session['current_module']}"
DefaultModuleName(n) == "Module " \o IntToStr(n)

\* ------------------------------------------------------------- file system
\* os.path.exists(name)
Exists(fs, name) == name \in DOMAIN fs

\* open(name, 'w') + json.dump(doc): creates or replaces the whole file.
\* json.dump / json.load keep dictionaries of strings, integers, booleans and
\* lists as they are, so a file holds the document itself.
WriteJson(fs, name, doc) ==
    [n \in (DOMAIN fs) \cup {name} |-> IF n = name THEN doc ELSE fs[n]]

\* open(name, 'r') + json.load
ReadJson(fs, name) == fs[name]

\* What a JSON file holds after a json.dump that failed under way: a
\* truncated text, which json.load refuses.
Corrupt == [ corrupt |-> TRUE ]

IsSessionFile(name) == name[1] = "session_"

SessionFiles(fs) == { n \in DOMAIN fs : IsSessionFile(n) }

\* The weight of the disk, which MaxDisk bounds.
SessionWeight(session) ==
    IF session = Corrupt THEN 1
    ELSE 1 + session.current_module + Len(session.modules_completed)

RECURSIVE SumWeights(_, _)
SumWeights(fs, names) ==
    IF names = {} THEN 0
    ELSE LET n == CHOOSE x \in names : TRUE
         IN  SessionWeight(fs[n]) + SumWeights(fs, names \ {n})

DiskWeight(fs) == SumWeights(fs, SessionFiles(fs))

\* A user whose session files may weigh one unit more when no other user has
\* a session file, so that a record with two completed modules is reached.
LoneUser == <<"v">>

Allowance(fs) ==
    IF \A n \in SessionFiles(fs) : fs[n] # Corrupt /\ fs[n].user_id = LoneUser
    THEN MaxDisk + 1
    ELSE MaxDisk

Fits(fs) == DiskWeight(fs) <= Allowance(fs)

\* ---------------------------------------------------------------- session
\* Mutant of NewSession: a start over a stored record resumes it.
NewSessionResuming(user_id, tool_name, t) ==
    IF SessionFile(user_id, tool_name) \in DOMAIN files
    THEN [files[SessionFile(user_id, tool_name)] EXCEPT
            !.user_id = user_id, !.tool_name = tool_name, !.started = t]
    ELSE [ user_id           |-> user_id,
           tool_name         |-> tool_name,
           started           |-> t,
           current_module    |-> 0,
           modules_completed |-> << >>,
           status            |-> "in_progress" ]

NewSession(user_id, tool_name, t) ==
    [ user_id           |-> user_id,
      tool_name         |-> tool_name,
      started           |-> t,
      current_module    |-> 0,
      modules_completed |-> << >>,
      status            |-> "in_progress" ]

\* Mutants of Advance: advance only a completed module; wrap around.
AdvanceIfCompleted(session) ==
    IF \E i \in 1..Len(session.modules_completed) :
          session.modules_completed[i].module_number = session.current_module
    THEN [session EXCEPT !.current_module = session.current_module + 1]
    ELSE session

AdvanceWrap(session) ==
    [session EXCEPT !.current_module = (session.current_module + 1) % 2]

Advance(session) ==
    [session EXCEPT !.current_module = session.current_module + 1]

\* Mutant of CompletionEntry: modules numbered from 1.
CompletionEntryOneBased(session, module_name, t) ==
    [ module_number |-> session.current_module + 1,
      module_name   |-> IF module_name # "" THEN module_name
                        ELSE DefaultModuleName(session.current_module + 1),
      completed_at  |-> t ]

CompletionEntry(session, module_name, t) ==
    [ module_number |-> session.current_module,
      module_name   |-> IF module_name # "" THEN module_name
                        ELSE DefaultModuleName(session.current_module),
      completed_at  |-> t ]

\* Mutant of Complete: a module already completed is not entered again.
CompleteOnce(session, module_name, t) ==
    IF \E i \in 1..Len(session.modules_completed) :
          session.modules_completed[i].module_number = session.current_module
    THEN session
    ELSE [session EXCEPT !.modules_completed =
            Append(session.modules_completed,
                   CompletionEntry(session, module_name, t))]

Complete(session, module_name, t) ==
    [session EXCEPT !.modules_completed =
        Append(session.modules_completed, CompletionEntry(session, module_name, t))]

SessionCall(user_id, tool_name, action, module_name) ==
    [ op          |-> "manage_learning_session",
      user_id     |-> user_id,
      tool_name   |-> tool_name,
      action      |-> action,
      module_name |-> module_name ]

\* Python's None (JSON null).
None == [ none |-> TRUE ]

\* Mutant of NoSessionResult: a missing session reported like get_current does.
NoSessionAsSuccess(message) == [ status |-> "success", message |-> message ]

\* The else branches of next_module and complete_module.
NoSessionResult(message) == [ status |-> "error", error_message |-> message ]

\* action == "start"
SessionStart(user_id, tool_name, module_name) ==
    LET session_file == SessionFile(user_id, tool_name) IN
    /\ \E t \in now..MaxClock :
         LET session == NewSession(user_id, tool_name, t) IN
         /\ now' = t
         /\ Fits(WriteJson(files, session_file, session))
         /\ files' = WriteJson(files, session_file, session)
         /\ result' = [ status |-> "success",
                        message |-> <<"Started learning session for ", tool_name>>,
                        session |-> session ]
    /\ nexts' = [n \in SessionFiles(files') |->
                   IF n = session_file THEN 0 ELSE nexts[n]]
    /\ call' = SessionCall(user_id, tool_name, "start", module_name)
    /\ before' = Disk
    /\ UNCHANGED <<lessons, tracked>>

\* action == "next_module"
SessionNextModule(user_id, tool_name, module_name) ==
    LET session_file == SessionFile(user_id, tool_name) IN
    /\ call' = SessionCall(user_id, tool_name, "next_module", module_name)
    /\ before' = Disk
    /\ UNCHANGED <<lessons, tracked>>
    /\ IF Exists(files, session_file)
       THEN LET session == Advance(ReadJson(files, session_file)) IN
            /\ Fits(WriteJson(files, session_file, session))
            /\ files' = WriteJson(files, session_file, session)
            /\ result' = [ status |-> "success",
                           message |-> <<"Advanced to module ",
                                         session.current_module>>,
                           current_module |-> session.current_module ]
            /\ nexts' = [nexts EXCEPT ![session_file] = @ + 1]
       ELSE /\ result' = NoSessionResult(
                           "No active session found. Start a new session first.")
            /\ UNCHANGED <<files, nexts>>
    /\ UNCHANGED now

\* action == "complete_module"
SessionCompleteModule(user_id, tool_name, module_name) ==
    LET session_file == SessionFile(user_id, tool_name) IN
    /\ call' = SessionCall(user_id, tool_name, "complete_module", module_name)
    /\ before' = Disk
    /\ UNCHANGED <<lessons, tracked>>
    /\ IF Exists(files, session_file)
       THEN /\ \E t \in now..MaxClock :
                 LET session == Complete(ReadJson(files, session_file),
                                         module_name, t) IN
                 /\ Fits(WriteJson(files, session_file, session))
                 /\ now' = t
                 /\ files' = WriteJson(files, session_file, session)
                 /\ result' = [ status |-> "success",
                                message |-> <<"Module ", session.current_module,
                                              " completed!">>,
                                modules_completed |->
                                    Len(session.modules_completed) ]
            /\ UNCHANGED nexts
       ELSE /\ result' = NoSessionResult("No active session found")
            /\ UNCHANGED <<files, now, nexts>>

\* Mutant of SessionGetCurrent: no record is an error, as for next_module.
SessionGetCurrentStrict(user_id, tool_name, module_name) ==
    LET session_file == SessionFile(user_id, tool_name) IN
    /\ call' = SessionCall(user_id, tool_name, "get_current", module_name)
    /\ before' = Disk
    /\ UNCHANGED <<lessons, tracked>>
    /\ result' = IF Exists(files, session_file)
                 THEN [ status |-> "success",
                        session |-> ReadJson(files, session_file) ]
                 ELSE NoSessionResult("No active session")
    /\ UNCHANGED <<files, now, nexts>>

\* action == "get_current"
SessionGetCurrent(user_id, tool_name, module_name) ==
    LET session_file == SessionFile(user_id, tool_name) IN
    /\ call' = SessionCall(user_id, tool_name, "get_current", module_name)
    /\ before' = Disk
    /\ UNCHANGED <<lessons, tracked>>
    /\ result' = IF Exists(files, session_file)
                 THEN [ status |-> "success",
                        session |-> ReadJson(files, session_file) ]
                 ELSE [ status |-> "success",
                        message |-> "No active session",
                        session |-> None ]
    /\ UNCHANGED <<files, now, nexts>>

\* Mutant of SessionUnknownAction: the final else starts a session.
SessionUnknownActionStarts(user_id, tool_name, action, module_name) ==
    LET session_file == SessionFile(user_id, tool_name) IN
    /\ action \notin KnownActions
    /\ \E t \in now..MaxClock :
         LET session == NewSession(user_id, tool_name, t) IN
         /\ now' = t
         /\ Fits(WriteJson(files, session_file, session))
         /\ files' = WriteJson(files, session_file, session)
         /\ result' = [ status |-> "success", session |-> session ]
    /\ nexts' = [n \in SessionFiles(files') |->
                   IF n = session_file THEN 0 ELSE nexts[n]]
    /\ call' = SessionCall(user_id, tool_name, action, module_name)
    /\ before' = Disk
    /\ UNCHANGED <<lessons, tracked>>

\* the final else: any other action string
SessionUnknownAction(user_id, tool_name, action, module_name) ==
    /\ action \notin KnownActions
    /\ call' = SessionCall(user_id, tool_name, action, module_name)
    /\ before' = Disk
    /\ UNCHANGED <<lessons, tracked>>
    /\ result' = [ status |-> "error",
                   error_message |-> <<"Unknown action: ", action>> ]
    /\ UNCHANGED <<files, now, nexts>>

\* module_name is read by complete_module alone; the other actions are called
\* with its default, "".
SessionCalls(user_id, tool_name) ==
    \/ SessionStart(user_id, tool_name, "")
    \/ SessionNextModule(user_id, tool_name, "")
    \/ \E module_name \in ModuleNames :
           SessionCompleteModule(user_id, tool_name, module_name)
    \/ SessionGetCurrent(user_id, tool_name, "")
    \/ \E action \in Actions :
           SessionUnknownAction(user_id, tool_name, action, "")

ManageLearningSession ==
    \E user_id \in UserIds, tool_name \in SessionTools :
        SessionCalls(user_id, tool_name)

\* --------------------------------------------------------------- progress
\* Users and tool names of the progress calls.  The tools mapping is keyed by
\* the tool name as the caller wrote it.
ProgressTools == { <<"b">>, <<"A", " ", "b">> }

\* (milestone, completed) arguments.
Milestones == { <<"Completed basic tutorial", TRUE>>, <<"Read the docs", FALSE>> }

\* f"progress_{user_id}.json"
ProgressFile(user_id) == <<"progress_">> \o user_id \o <<".json">>

IsProgressFile(name) == name[1] = "progress_"

ProgressFiles(fs) == { n \in DOMAIN fs : IsProgressFile(n) }

NewProgress(user_id) == [ user_id |-> user_id, tools |-> << >> ]

\* Mutant of WithTool: the entry is created anew at every call.
WithToolAlways(progress_data, tool_name, t) ==
    [progress_data EXCEPT !.tools =
        [k \in (DOMAIN progress_data.tools) \cup {tool_name} |->
            IF k = tool_name THEN [ started |-> t, milestones |-> << >> ]
            ELSE progress_data.tools[k]]]

\* if tool_name not in progress_data["tools"]: create the entry
WithTool(progress_data, tool_name, t) ==
    IF tool_name \in DOMAIN progress_data.tools
    THEN progress_data
    ELSE [progress_data EXCEPT !.tools =
            [k \in (DOMAIN progress_data.tools) \cup {tool_name} |->
                IF k = tool_name THEN [ started |-> t, milestones |-> << >> ]
                ELSE progress_data.tools[k]]]

MilestoneEntry(milestone, completed, t) ==
    [ milestone |-> milestone, completed |-> completed, timestamp |-> t ]

\* Mutant of AppendMilestone: the tool keeps its latest milestone only.
AppendMilestoneReplacing(progress_data, tool_name, entry) ==
    [progress_data EXCEPT !.tools[tool_name].milestones = << entry >>]

\* progress_data["tools"][tool_name]["milestones"].append(...)
AppendMilestone(progress_data, tool_name, entry) ==
    [progress_data EXCEPT !.tools[tool_name].milestones = Append(@, entry)]

RECURSIVE CountMilestones(_, _)
CountMilestones(progress_data, names) ==
    IF names = {} THEN 0
    ELSE LET k == CHOOSE x \in names : TRUE
         IN  Len(progress_data.tools[k].milestones)
             + CountMilestones(progress_data, names \ {k})

RECURSIVE TotalMilestones(_, _)
TotalMilestones(fs, names) ==
    IF names = {} THEN 0
    ELSE LET n == CHOOSE x \in names : TRUE
         IN  (IF fs[n] = Corrupt THEN 1
              ELSE CountMilestones(fs[n], DOMAIN fs[n].tools))
             + TotalMilestones(fs, names \ {n})

MilestonesFit(fs) == TotalMilestones(fs, ProgressFiles(fs)) <= MaxMilestones

TrackProgress(user_id, tool_name, milestone, completed) ==
    LET progress_file == ProgressFile(user_id)
        loaded == IF Exists(files, progress_file)
                  THEN ReadJson(files, progress_file)
                  ELSE NewProgress(user_id)
    IN
    \E t1 \in now..MaxClock : \E t2 \in t1..MaxClock :
        LET progress_data ==
                AppendMilestone(WithTool(loaded, tool_name, t1), tool_name,
                                MilestoneEntry(milestone, completed, t2))
        IN
        /\ MilestonesFit(WriteJson(files, progress_file, progress_data))
        /\ now' = t2
        /\ files' = WriteJson(files, progress_file, progress_data)
        /\ result' = [ status |-> "success",
                       message |-> <<"Progress tracked: ", milestone>>,
                       total_milestones |->
                           Len(progress_data.tools[tool_name].milestones) ]
        /\ call' = [ op |-> "track_progress", user_id |-> user_id,
                     tool_name |-> tool_name, milestone |-> milestone,
                     completed |-> completed ]
        /\ before' = Disk
        /\ tracked' = [k \in (DOMAIN tracked) \cup {<<user_id, tool_name>>} |->
                         IF k = <<user_id, tool_name>>
                         THEN (IF k \in DOMAIN tracked THEN tracked[k] ELSE 0) + 1
                         ELSE tracked[k]]
        /\ UNCHANGED <<lessons, nexts>>

GetProgressSummary(user_id) ==
    LET progress_file == ProgressFile(user_id) IN
    /\ result' =
         IF ~ Exists(files, progress_file)
         THEN [ status |-> "success",
                message |-> "No progress recorded yet",
                tools_count |-> 0,
                tools |-> << >> ]
         ELSE LET progress_data == ReadJson(files, progress_file) IN
              [ status |-> "success",
                user_id |-> user_id,
                tools_count |-> Cardinality(DOMAIN progress_data.tools),
                tools |-> progress_data.tools ]
    /\ call' = [ op |-> "get_progress_summary", user_id |-> user_id ]
    /\ before' = Disk
    /\ UNCHANGED <<files, lessons, now, nexts, tracked>>

ProgressStore ==
    \E user_id \in UserIds :
        \/ \E tool_name \in ProgressTools, m \in Milestones :
               TrackProgress(user_id, tool_name, m[1], m[2])
        \/ GetProgressSummary(user_id)

\* ---------------------------------------------------------- lesson folders
\* Tool names of the folder calls: "A b" and "a-b" have the folder a_b, and
\* the empty string is a tool name like another (the code checks nothing).
FolderTools == { << >>, <<"b">>, <<"A", " ", "b">>, <<"a", "-", "b">> }

\* File names and contents of save_to_tool_folder.
FileNames == { <<"research.md">>, <<"roadmap.md">> }

Contents == { "text 1", "text 2" }

\* Mutant of FolderName: the slug of the session file name, hyphens kept.
FolderNameKeepingHyphens(tool_name) == StrReplace(StrLower(tool_name), " ", "_")

\* tool_name.lower().replace(' ', '_').replace('-', '_')
FolderName(tool_name) ==
    StrReplace(StrReplace(StrLower(tool_name), " ", "_"), "-", "_")

\* A path is the sequence of its components below os.getcwd().
\* os.path.join(dir, name) for a name without separator: an empty name adds
\* only a trailing separator and designates dir itself.
PathJoin(dir, name) == IF name = << >> THEN dir ELSE Append(dir, name)

\* os.path.join(os.getcwd(), "lessons")
LessonsDir == << <<"lessons">> >>

FolderPath(tool_name) == PathJoin(LessonsDir, FolderName(tool_name))

\* os.path.exists(path)
PathExists(ls, path) == path \in ls.dirs \/ path \in DOMAIN ls.files

\* os.makedirs(path): the directory and every missing directory above it.
MakeDirs(ls, path) ==
    [ls EXCEPT !.dirs = @ \cup { SubSeq(path, 1, k) : k \in 1..Len(path) }]

\* os.listdir(path): the names directly below path (in no particular order).
ListDir(ls, path) ==
    { q[Len(path) + 1] :
        q \in { e \in ls.dirs \cup DOMAIN ls.files :
                  /\ Len(e) = Len(path) + 1
                  /\ SubSeq(e, 1, Len(path)) = path } }

\* open(path, 'w') + f.write(content)
WriteText(ls, path, content) ==
    [ls EXCEPT !.files =
        [q \in (DOMAIN ls.files) \cup {path} |->
            IF q = path THEN content ELSE ls.files[q]]]

EntriesFit(ls) == Cardinality(ls.dirs) + Cardinality(DOMAIN ls.files) <= MaxEntries

CreateToolFolder(tool_name) ==
    LET folder_path == FolderPath(tool_name)
        ensured == IF ~ PathExists(lessons, LessonsDir)
                   THEN MakeDirs(lessons, LessonsDir)
                   ELSE lessons
    IN
    /\ IF PathExists(ensured, folder_path)
       THEN /\ lessons' = ensured
            /\ result' = [ status |-> "exists",
                           folder_path |-> folder_path,
                           existing_files |-> ListDir(ensured, folder_path) ]
       ELSE /\ EntriesFit(MakeDirs(ensured, folder_path))
            /\ lessons' = MakeDirs(ensured, folder_path)
            /\ result' = [ status |-> "created",
                           folder_path |-> folder_path,
                           existing_files |-> {} ]
    /\ call' = [ op |-> "create_tool_folder", tool_name |-> tool_name ]
    /\ before' = Disk
    /\ UNCHANGED <<files, now, nexts, tracked>>

\* The body of save_to_tool_folder: the tree it leaves and what it returns.
SavedTree(ls, tool_name, filename, content) ==
    LET folder_path == FolderPath(tool_name)
        ensured == IF ~ PathExists(ls, folder_path)
                   THEN MakeDirs(ls, folder_path)
                   ELSE ls
    IN  WriteText(ensured, PathJoin(folder_path, filename), content)

SaveResult(tool_name, filename) ==
    [ status |-> "success",
      file_path |-> PathJoin(FolderPath(tool_name), filename) ]

SaveToToolFolder(tool_name, filename, content) ==
    /\ EntriesFit(SavedTree(lessons, tool_name, filename, content))
    /\ lessons' = SavedTree(lessons, tool_name, filename, content)
    /\ result' = SaveResult(tool_name, filename)
    /\ call' = [ op |-> "save_to_tool_folder", tool_name |-> tool_name,
                 filename |-> filename, content |-> content ]
    /\ before' = Disk
    /\ UNCHANGED <<files, now, nexts, tracked>>

\* open(file_path, 'r') on a directory raises IsADirectoryError, which the
\* except clause turns into an error result.
ReadFromToolFolder(tool_name, filename) ==
    LET file_path == PathJoin(FolderPath(tool_name), filename) IN
    /\ result' =
         IF ~ PathExists(lessons, file_path)
         THEN [ status  |-> "not_found",
                message |-> <<"File ", filename, " not found in ",
                              FolderName(tool_name), " folder">>,
                content |-> None ]
         ELSE IF file_path \in lessons.dirs
         THEN [ status        |-> "error",
                error_message |-> "Failed to read file: Is a directory",
                content       |-> None ]
         ELSE [ status    |-> "success",
                content   |-> lessons.files[file_path],
                file_path |-> file_path ]
    /\ call' = [ op |-> "read_from_tool_folder", tool_name |-> tool_name,
                 filename |-> filename ]
    /\ before' = Disk
    /\ UNCHANGED <<files, lessons, now, nexts, tracked>>

\* Arguments of assemble_module_file: module numbers and the three text
\* blobs (lesson, examples, quiz); "" is an empty blob.
ModuleNumbers == { 1, 2 }

Blobs == { << "", "", "" >>,
           << "lesson text", "examples text", "quiz text" >> }

\* datetime.now().strftime('%Y-%m-%d %H:%M')
StrfTime(t) == "minute " \o IntToStr(t)

\* Mutant of ModuleContent: the quiz section before the code examples.
ModuleContentQuizFirst(module_number, lesson, examples, quiz, t) ==
    << "# Module ", IntToStr(module_number),
       "## Lesson", lesson, "---",
       "## Quiz", quiz, "---",
       "## Code Examples", examples, "---",
       "*Generated: ", StrfTime(t), "*" >>

\* The f-string of assemble_module_file, as the sequence of its literal pieces
\* and its substituted values (the pictographs of the headers left out).
ModuleContent(module_number, lesson, examples, quiz, t) ==
    << "# Module ", IntToStr(module_number),
       "## Lesson", lesson, "---",
       "## Code Examples", examples, "---",
       "## Quiz", quiz, "---",
       "*Generated: ", StrfTime(t), "*" >>

\* f"module_{module_number}.md"
ModuleFileName(module_number) == << "module_", IntToStr(module_number), ".md" >>

\* os.path.abspath(os.path.join("lessons", tool_name, filename)): below
\* os.getcwd(), with the tool name as the caller wrote it.
AbsolutePath(tool_name, filename) ==
    PathJoin(PathJoin(LessonsDir, tool_name), filename)

AssembleModuleFile(tool_name, module_number, lesson, examples, quiz) ==
    LET filename == ModuleFileName(module_number) IN
    \E t \in now..MaxClock :
        LET module_content ==
                ModuleContent(module_number, lesson, examples, quiz, t)
        IN
        /\ EntriesFit(SavedTree(lessons, tool_name, filename, module_content))
        /\ now' = t
        /\ lessons' = SavedTree(lessons, tool_name, filename, module_content)
        /\ result' = [ status        |-> "success",
                       file_path     |-> SaveResult(tool_name, filename).file_path,
                       absolute_path |-> AbsolutePath(tool_name, filename) ]
        /\ call' = [ op |-> "assemble_module_file", tool_name |-> tool_name,
                     module_number |-> module_number, lesson |-> lesson,
                     examples |-> examples, quiz |-> quiz ]
        /\ before' = Disk
        /\ UNCHANGED <<files, nexts, tracked>>

\* Tool names of the assemble calls: "A b" has the folder a_b.
AssembleTools == { << >>, <<"b">>, <<"A", " ", "b">> }

\* The module files of a tool, assembled and read back.
ModuleAssembler ==
    \E tool_name \in AssembleTools :
        \/ CreateToolFolder(tool_name)
        \/ \E module_number \in ModuleNumbers, blobs \in Blobs :
               AssembleModuleFile(tool_name, module_number,
                                  blobs[1], blobs[2], blobs[3])
        \/ \E module_number \in ModuleNumbers :
               ReadFromToolFolder(tool_name, ModuleFileName(module_number))

LessonFolderStore ==
    \E tool_name \in FolderTools :
        \/ CreateToolFolder(tool_name)
        \/ \E filename \in FileNames, content \in Contents :
               SaveToToolFolder(tool_name, filename, content)
        \/ \E filename \in FileNames :
               ReadFromToolFolder(tool_name, filename)

\* ----------------------------------------------------------------- faults
\* A file-system step of an operation raises (OSError: permission denied, disk
\* full; json.JSONDecodeError on a truncated file).  Every operation runs
\* inside try / except Exception, which returns an error dictionary.  The
\* failed step is recorded in the call.
\* Mutant of Caught: no except clause, the exception reaches the caller.
Uncaught(message) == [ status |-> "raised", error_message |-> message ]

\* except Exception as e: return {"status": "error", "error_message": ...}
Caught(message) == [ status |-> "error", error_message |-> message ]

\* A JSON file that exists and json.load accepts, or no file.
Sound(name) == IF name \in DOMAIN files THEN files[name] # Corrupt ELSE TRUE

\* The steps of a read-modify-write of a JSON file that can fail, and whether
\* the operation reaches them.
JsonStepFails(step, name, loads, dumps) ==
    \/ step = "open_read"  /\ loads /\ Exists(files, name)
    \/ step = "json_load"  /\ loads /\ Exists(files, name) /\ files[name] = Corrupt
    \/ step = "open_write" /\ dumps /\ (loads => Sound(name))
    \/ step = "json_dump"  /\ dumps /\ (loads => Sound(name))

JsonSteps == { "open_read", "json_load", "open_write", "json_dump" }

\* A failed json.dump leaves the file truncated; the other failures leave the
\* disk as it was.
AfterJsonStep(step, name) ==
    IF step = "json_dump" THEN WriteJson(files, name, Corrupt) ELSE files

SessionFails(user_id, tool_name, action, module_name) ==
    LET session_file == SessionFile(user_id, tool_name)
        loads == action \in {"next_module", "complete_module", "get_current"}
        dumps == \/ action = "start"
                 \/ /\ action \in {"next_module", "complete_module"}
                    /\ Exists(files, session_file)
    IN
    \E step \in JsonSteps :
        /\ JsonStepFails(step, session_file, loads, dumps)
        /\ files' = AfterJsonStep(step, session_file)
        /\ result' = Caught(<<"Session management failed: ", step>>)
        /\ call' = [ op |-> "manage_learning_session", user_id |-> user_id,
                     tool_name |-> tool_name, action |-> action,
                     module_name |-> module_name, fault |-> step ]
        /\ nexts' = [n \in SessionFiles(files') |->
                       IF n \in DOMAIN nexts THEN nexts[n] ELSE 0]
        /\ before' = Disk
        /\ UNCHANGED <<lessons, now, tracked>>

TrackProgressFails(user_id, tool_name, milestone, completed) ==
    LET progress_file == ProgressFile(user_id) IN
    \E step \in JsonSteps :
        /\ JsonStepFails(step, progress_file, TRUE, TRUE)
        /\ files' = AfterJsonStep(step, progress_file)
        /\ result' = Caught(<<"Failed to track progress: ", step>>)
        /\ call' = [ op |-> "track_progress", user_id |-> user_id,
                     tool_name |-> tool_name, milestone |-> milestone,
                     completed |-> completed, fault |-> step ]
        /\ before' = Disk
        /\ UNCHANGED <<lessons, now, nexts, tracked>>

GetProgressSummaryFails(user_id) ==
    LET progress_file == ProgressFile(user_id) IN
    \E step \in JsonSteps :
        /\ JsonStepFails(step, progress_file, TRUE, FALSE)
        /\ result' = Caught(<<"Failed to retrieve progress: ", step>>)
        /\ call' = [ op |-> "get_progress_summary", user_id |-> user_id,
                     fault |-> step ]
        /\ before' = Disk
        /\ UNCHANGED <<files, lessons, now, nexts, tracked>>

\* create_tool_folder: os.makedirs(lessons_dir), os.listdir(folder_path) or
\* os.makedirs(folder_path) fails; lessons/ made before the failure stays.
CreateToolFolderFails(tool_name) ==
    LET folder_path == FolderPath(tool_name)
        ensured == MakeDirs(lessons, LessonsDir)
    IN
    \E step \in { "makedirs_lessons", "listdir", "makedirs_folder" } :
        /\ \/ step = "makedirs_lessons" /\ ~ PathExists(lessons, LessonsDir)
           \/ step = "listdir" /\ PathExists(ensured, folder_path)
           \/ step = "makedirs_folder" /\ ~ PathExists(ensured, folder_path)
        /\ lessons' = IF step = "makedirs_lessons" THEN lessons ELSE ensured
        /\ result' = Caught(<<"Failed to create folder: ", step>>)
        /\ call' = [ op |-> "create_tool_folder", tool_name |-> tool_name,
                     fault |-> step ]
        /\ before' = Disk
        /\ UNCHANGED <<files, now, nexts, tracked>>

\* save_to_tool_folder: os.makedirs(folder_path) fails, with or without
\* lessons/ made; open(file_path, 'w') fails; f.write fails and leaves the
\* file empty.
SaveSteps == { "makedirs", "makedirs_below_lessons", "open_write", "write" }

SaveStepFails(ls, tool_name, step) ==
    step \in {"makedirs", "makedirs_below_lessons"}
        => ~ PathExists(ls, FolderPath(tool_name))

TreeAfterFailedSave(ls, tool_name, filename, step) ==
    CASE step = "makedirs" -> ls
      [] step = "makedirs_below_lessons" -> MakeDirs(ls, LessonsDir)
      [] step = "open_write" -> MakeDirs(ls, FolderPath(tool_name))
      [] step = "write" -> SavedTree(ls, tool_name, filename, "")

SaveToToolFolderFails(tool_name, filename, content) ==
    \E step \in SaveSteps :
        /\ SaveStepFails(lessons, tool_name, step)
        /\ lessons' = TreeAfterFailedSave(lessons, tool_name, filename, step)
        /\ result' = Caught(<<"Failed to save file: ", step>>)
        /\ call' = [ op |-> "save_to_tool_folder", tool_name |-> tool_name,
                     filename |-> filename, content |-> content,
                     fault |-> step ]
        /\ before' = Disk
        /\ UNCHANGED <<files, now, nexts, tracked>>

\* read_from_tool_folder: open(file_path, 'r') or f.read() fails.
ReadFromToolFolderFails(tool_name, filename) ==
    LET file_path == PathJoin(FolderPath(tool_name), filename) IN
    /\ PathExists(lessons, file_path)
    /\ result' = [ status        |-> Caught("Failed to read file").status,
                   error_message |-> Caught("Failed to read file").error_message,
                   content       |-> None ]
    /\ call' = [ op |-> "read_from_tool_folder", tool_name |-> tool_name,
                 filename |-> filename, fault |-> "open_read" ]
    /\ before' = Disk
    /\ UNCHANGED <<files, lessons, now, nexts, tracked>>

\* assemble_module_file: save_to_tool_folder returns its error dictionary, to
\* which absolute_path is added.
AssembleModuleFileFails(tool_name, module_number, lesson, examples, quiz) ==
    LET filename == ModuleFileName(module_number) IN
    \E step \in SaveSteps :
        /\ SaveStepFails(lessons, tool_name, step)
        /\ lessons' = TreeAfterFailedSave(lessons, tool_name, filename, step)
        /\ result' =
             [ status        |-> Caught(<<"Failed to save file: ", step>>).status,
               error_message |->
                   Caught(<<"Failed to save file: ", step>>).error_message,
               absolute_path |-> AbsolutePath(tool_name, filename) ]
        /\ call' = [ op |-> "assemble_module_file", tool_name |-> tool_name,
                     module_number |-> module_number, lesson |-> lesson,
                     examples |-> examples, quiz |-> quiz, fault |-> step ]
        /\ before' = Disk
        /\ UNCHANGED <<files, now, nexts, tracked>>

\* ---------------------------------------------------------------- history
\* The normalized slug of a tool name as the specification words it:
\* lower-cased, spaces and hyphens replaced by underscores.
NormalizedChar(c) ==
    CASE c = " " -> "_"
      [] c = "-" -> "_"
      [] c = "A" -> "a"
      [] c = "B" -> "b"
      [] OTHER   -> c

NormalizedSlug(tool_name) == [i \in 1..Len(tool_name) |-> NormalizedChar(tool_name[i])]

\* saved records every successful save: who made it and what it wrote.
SaveKey(c) == << NormalizedSlug(c.tool_name), c.filename >>

RecordSaves ==
    saved' =
      IF call'.op = "save_to_tool_folder" /\ result'.status = "success"
      THEN [k \in (DOMAIN saved) \cup {SaveKey(call')} |->
              IF k = SaveKey(call')
              THEN [ tool_name |-> call'.tool_name, content |-> call'.content ]
              ELSE saved[k]]
      ELSE saved

\* -------------------------------------------------------- command line loop
\* Lines typed at the "You: " prompt.
InputLines ==
    { <<"e", "x", "i", "t">>, <<"q", "u", "i", "t">>, <<"Q", "U", "I", "T">>,
      <<"h", "e", "l", "p">>, <<"H", "e", "l", "p">>,
      << >>, <<" ">>,
      <<" ", "e", "x", "i", "t">>, <<"h", "i">> }

\* str.strip(): the white space at both ends removed.
RECURSIVE StrStrip(_)
StrStrip(s) ==
    IF s = << >> THEN s
    ELSE IF Head(s) = " " THEN StrStrip(Tail(s))
    ELSE IF s[Len(s)] = " " THEN StrStrip(SubSeq(s, 1, Len(s) - 1))
    ELSE s

\* user_input.lower() in ["exit", "quit"]
IsExit(user_input) ==
    StrLower(user_input) \in { <<"e", "x", "i", "t">>, <<"q", "u", "i", "t">> }

\* user_input.lower() == "help"
IsHelp(user_input) == StrLower(user_input) = <<"h", "e", "l", "p">>

\* Mutant of IsBlank: the empty line only.
IsBlankWhenEmpty(user_input) == user_input = << >>

\* not user_input.strip()
IsBlank(user_input) == StrStrip(user_input) = << >>

\* main() before its first input(): nothing read, nothing forwarded; printed
\* is what the loop printed last.
CliStart ==
    [ state     |-> "running",
      pc        |-> "input",
      read      |-> << >>,
      forwarded |-> << >>,
      printed   |-> "banner",
      errors    |-> 0 ]

\* One pass of the loop body up to the call of the runner: input() returns a
\* line; exit and quit break, help and a blank line continue, any other line
\* goes to runner.run_async as the text of the new message.
CliInput(user_input) ==
    /\ cli.state = "running" /\ cli.pc = "input"
    /\ Len(cli.read) < MaxLines
    /\ cli' =
         IF IsExit(user_input)
         THEN [cli EXCEPT !.read = Append(@, user_input),
                          !.printed = "goodbye",
                          !.state = "stopped"]
         ELSE IF IsHelp(user_input)
         THEN [cli EXCEPT !.read = Append(@, user_input),
                          !.printed = "usage"]
         ELSE IF IsBlank(user_input)
         THEN [cli EXCEPT !.read = Append(@, user_input)]
         ELSE [cli EXCEPT !.read = Append(@, user_input),
                          !.printed = "assistant",
                          !.forwarded = Append(@, user_input),
                          !.pc = "turn"]
    /\ UNCHANGED <<files, lessons, now, call, result, before, nexts, tracked, saved>>

\* input() at the end of the input stream raises EOFError; the call is outside
\* the try statement, so the exception leaves main().
CliInputEof ==
    /\ cli.state = "running" /\ cli.pc = "input"
    /\ cli' = [cli EXCEPT !.state = "crashed", !.printed = "traceback"]
    /\ UNCHANGED <<files, lessons, now, call, result, before, nexts, tracked, saved>>

\* The async for over runner.run_async ends: the final responses are printed.
CliTurnCompletes ==
    /\ cli.state = "running" /\ cli.pc = "turn"
    /\ cli' = [cli EXCEPT !.pc = "input", !.printed = "response"]
    /\ UNCHANGED <<files, lessons, now, call, result, before, nexts, tracked, saved>>

\* The turn raises an Exception: except Exception prints it, the loop goes on.
CliTurnRaises ==
    /\ cli.state = "running" /\ cli.pc = "turn"
    /\ cli' = [cli EXCEPT !.pc = "input", !.printed = "error",
                          !.errors = @ + 1]
    /\ UNCHANGED <<files, lessons, now, call, result, before, nexts, tracked, saved>>

\* ---------------------------------------------------------- specification
NoCall == [ op |-> "none" ]

NoLessons == [ dirs |-> {}, files |-> << >> ]

\* An empty working directory, before any call.
Init ==
    /\ files = << >>
    /\ lessons = NoLessons
    /\ now = 0
    /\ call = NoCall
    /\ result = [ status |-> "none" ]
    /\ before = [ files |-> << >>, lessons |-> NoLessons ]
    /\ nexts = << >>
    /\ tracked = << >>
    /\ saved = << >>
    /\ cli = CliStart

\* The session store.
Next == ManageLearningSession /\ UNCHANGED <<saved, cli>>

Spec == Init /\ [][Next]_vars

\* The session store used by one user for one tool.
LoneTool == <<"b">>

NextLone == SessionCalls(LoneUser, LoneTool) /\ UNCHANGED <<saved, cli>>

SpecLone == Init /\ [][NextLone]_vars

\* The progress store.
NextProgress == ProgressStore /\ UNCHANGED <<saved, cli>>

SpecProgress == Init /\ [][NextProgress]_vars

\* The lesson folder store.
NextFolder == LessonFolderStore /\ RecordSaves /\ UNCHANGED cli

SpecFolder == Init /\ [][NextFolder]_vars

\* The module assembler.
NextAssemble == ModuleAssembler /\ UNCHANGED <<saved, cli>>

SpecAssemble == Init /\ [][NextAssemble]_vars

\* The three stores used by one user under three spellings of one tool name:
\* "a_b", "A b" and "a-b".
SlugUser == <<"u">>

SlugTools == { <<"a", "_", "b">>, <<"A", " ", "b">>, <<"a", "-", "b">> }

SharedWeight ==
    DiskWeight(files) + TotalMilestones(files, ProgressFiles(files))
        + Cardinality(DOMAIN lessons.files)

SharedFits == SharedWeight <= MaxShared

\* One lesson file; the calls that start, advance and read a session, track
\* and summarise progress, save and read a lesson.
NextSlug ==
    /\ \E tool_name \in SlugTools :
          \/ SessionStart(SlugUser, tool_name, "")
          \/ SessionNextModule(SlugUser, tool_name, "")
          \/ SessionGetCurrent(SlugUser, tool_name, "")
          \/ TrackProgress(SlugUser, tool_name, "Read the docs", FALSE)
          \/ GetProgressSummary(SlugUser)
          \/ \E content \in Contents :
                 SaveToToolFolder(tool_name, <<"roadmap.md">>, content)
          \/ ReadFromToolFolder(tool_name, <<"roadmap.md">>)
    /\ RecordSaves
    /\ UNCHANGED cli
    /\ SharedFits'

SpecSlug == Init /\ [][NextSlug]_vars

\* The command line loop.
NextCli ==
    \/ \E user_input \in InputLines : CliInput(user_input)
    \/ CliInputEof
    \/ CliTurnCompletes
    \/ CliTurnRaises

SpecCli == Init /\ [][NextCli]_vars

\* The seven store operations of one user and one tool, each with its
\* file-system steps succeeding or failing.
FaultUser == <<"u">>

FaultTool == <<"b">>

\* With failing steps the three stores weigh one unit less.
FaultsFit == SharedWeight <= MaxShared - 1

NextFault ==
    /\ \/ SessionStart(FaultUser, FaultTool, "")
       \/ /\ Sound(SessionFile(FaultUser, FaultTool))
          /\ \/ SessionNextModule(FaultUser, FaultTool, "")
             \/ SessionCompleteModule(FaultUser, FaultTool, "")
             \/ SessionGetCurrent(FaultUser, FaultTool, "")
       \/ \E action \in KnownActions :
              SessionFails(FaultUser, FaultTool, action, "")
       \/ /\ Sound(ProgressFile(FaultUser))
          /\ \/ TrackProgress(FaultUser, FaultTool, "Read the docs", FALSE)
             \/ GetProgressSummary(FaultUser)
       \/ TrackProgressFails(FaultUser, FaultTool, "Read the docs", FALSE)
       \/ GetProgressSummaryFails(FaultUser)
       \/ CreateToolFolder(FaultTool)
       \/ CreateToolFolderFails(FaultTool)
       \/ SaveToToolFolder(FaultTool, <<"roadmap.md">>, "text 1")
       \/ SaveToToolFolderFails(FaultTool, <<"roadmap.md">>, "text 1")
       \/ ReadFromToolFolder(FaultTool, <<"roadmap.md">>)
       \/ ReadFromToolFolderFails(FaultTool, <<"roadmap.md">>)
       \/ AssembleModuleFile(FaultTool, 1, "", "", "")
       \/ AssembleModuleFileFails(FaultTool, 1, "", "", "")
    /\ UNCHANGED <<saved, cli>>
    /\ FaultsFit'

SpecFault == Init /\ [][NextFault]_vars

\* ================================================================= claims
\* The call that led to the next state, and the session file it addresses.
IsSessionCall(c) == c.op = "manage_learning_session"

CallFile(c) == SessionFile(c.user_id, c.tool_name)

\* "Module {n}" written out, for the module numbers a bounded run reaches.
ExpectedLabel(n) ==
    CASE n = 0 -> "Module 0" [] n = 1 -> "Module 1" [] n = 2 -> "Module 2"
      [] n = 3 -> "Module 3" [] n = 4 -> "Module 4" [] n = 5 -> "Module 5"

IsPrefix(s, t) == Len(s) <= Len(t) /\ SubSeq(t, 1, Len(s)) = s

\* C1: 'start' leaves a record with current_module = 0, no completed module and
\* status in_progress; every successful 'next_module' adds exactly 1 to the
\* stored current_module and returns the new value, completed or not;
\* 'complete_module' and 'get_current' leave it alone; so current_module is
\* the number of next_module calls since the start.
StartThenNextCounts ==
    /\ [](\A f \in SessionFiles(files) : files[f].current_module = nexts[f])
    /\ [][ IsSessionCall(call') =>
             LET f == CallFile(call') IN
             /\ call'.action = "start" =>
                  /\ f \in DOMAIN files'
                  /\ files'[f].current_module = 0
                  /\ files'[f].modules_completed = << >>
                  /\ files'[f].status = "in_progress"
             /\ (call'.action = "next_module" /\ result'.status = "success") =>
                  /\ f \in DOMAIN files
                  /\ files'[f].current_module = files[f].current_module + 1
                  /\ result'.current_module = files'[f].current_module
             /\ (call'.action \in {"complete_module", "get_current"}
                    /\ f \in DOMAIN files) =>
                  files'[f].current_module = files[f].current_module
         ]_vars

\* C1 witness: two next_module calls after a start, no module ever completed.
StartThenNextCountsWitness ==
    /\ IsSessionCall(call) /\ call.action = "next_module"
    /\ result.status = "success"
    /\ result.current_module = 2
    /\ files[CallFile(call)].current_module = 2
    /\ files[CallFile(call)].modules_completed = << >>

\* C2: with a record on disk, 'complete_module' appends exactly one entry at
\* the end of modules_completed, numbered with the stored current_module and
\* named as the caller says or "Module {current_module}" for an empty name;
\* current_module, status and the earlier entries stay, and a module already
\* completed gets a further entry.
CompleteAppendsOneEntry ==
    [][ (IsSessionCall(call') /\ call'.action = "complete_module"
            /\ CallFile(call') \in DOMAIN files) =>
          LET f    == CallFile(call')
              old  == files[f]
              new  == files'[f]
              last == new.modules_completed[Len(new.modules_completed)]
          IN
          /\ result'.status = "success"
          /\ Len(new.modules_completed) = Len(old.modules_completed) + 1
          /\ IsPrefix(old.modules_completed, new.modules_completed)
          /\ last.module_number = old.current_module
          /\ last.module_name = IF call'.module_name = ""
                                THEN ExpectedLabel(old.current_module)
                                ELSE call'.module_name
          /\ result'.modules_completed = Len(new.modules_completed)
          /\ new.current_module = old.current_module
          /\ new.status = old.status
          /\ new.user_id = old.user_id /\ new.tool_name = old.tool_name
          /\ new.started = old.started
      ]_vars

\* C2 witness: the same module completed twice, the second time by default name.
CompleteAppendsOneEntryWitness ==
    /\ IsSessionCall(call) /\ call.action = "complete_module"
    /\ call.module_name = ""
    /\ CallFile(call) \in DOMAIN before.files
    /\ LET mc == files[CallFile(call)].modules_completed IN
       /\ Len(mc) = 2
       /\ mc[1].module_number = mc[2].module_number
       /\ mc[2].module_name = "Module 0"

\* C3: 'next_module' or 'complete_module' for a pair without session record
\* returns status error, creates no session file and changes no stored file.
MissingSessionIsError ==
    [][ (IsSessionCall(call')
            /\ call'.action \in {"next_module", "complete_module"}
            /\ CallFile(call') \notin DOMAIN files) =>
          /\ result'.status = "error"
          /\ CallFile(call') \notin DOMAIN files'
          /\ files' = files
          /\ lessons' = lessons
      ]_vars

\* C3 witness: complete_module without record while another record is stored.
MissingSessionIsErrorWitness ==
    /\ IsSessionCall(call) /\ call.action = "complete_module"
    /\ CallFile(call) \notin DOMAIN before.files
    /\ before.files # << >>
    /\ result.status = "error"

\* C4: an action string other than the four known ones returns status error
\* and the stored files are the same before and after the call.
UnknownActionIsError ==
    [][ (IsSessionCall(call')
            /\ call'.action \notin
                 {"start", "next_module", "complete_module", "get_current"}) =>
          /\ result'.status = "error"
          /\ files' = files
          /\ lessons' = lessons
      ]_vars

\* C4 witness: "frobnicate" for a pair whose record is stored.
UnknownActionIsErrorWitness ==
    /\ IsSessionCall(call) /\ call.action = "frobnicate"
    /\ CallFile(call) \in DOMAIN before.files
    /\ result.status = "error"
    /\ files = before.files

\* C5 as claimed: over the calls made for one pair, the stored current_module
\* never becomes smaller than it was.
CurrentModuleNeverDecreases ==
    [][ (IsSessionCall(call') /\ CallFile(call') \in DOMAIN files
            /\ files[CallFile(call')].user_id = call'.user_id
            /\ files[CallFile(call')].tool_name = call'.tool_name) =>
          files'[CallFile(call')].current_module
              >= files[CallFile(call')].current_module
      ]_vars

\* C5 amended: no call removes a session record, and the stored current_module
\* of a record becomes smaller only when a 'start' call overwrites that
\* record, which sets it to 0; every other call leaves it or adds to it.
CurrentModuleDecreasesOnlyByStart ==
    [][ \A f \in SessionFiles(files) :
          /\ f \in DOMAIN files'
          /\ \/ files'[f].current_module >= files[f].current_module
             \/ /\ IsSessionCall(call') /\ call'.action = "start"
                /\ CallFile(call') = f
                /\ files'[f].current_module = 0
      ]_vars

\* C5 witness: a record advanced to module 2 and then a record set back by start.
CurrentModuleDecreasesOnlyByStartWitness ==
    /\ IsSessionCall(call) /\ call.action = "start"
    /\ CallFile(call) \in DOMAIN before.files
    /\ before.files[CallFile(call)].current_module = 2
    /\ files[CallFile(call)].current_module = 0

\* C6: the record stored by 'start' is the fresh record of the call's
\* arguments and start time, whatever was stored before; the call returns it
\* and no other file changes.
StartOverwrites ==
    [][ (IsSessionCall(call') /\ call'.action = "start") =>
          LET f == CallFile(call') IN
          /\ f \in DOMAIN files'
          /\ files'[f] = [ user_id           |-> call'.user_id,
                           tool_name         |-> call'.tool_name,
                           started           |-> now',
                           current_module    |-> 0,
                           modules_completed |-> << >>,
                           status            |-> "in_progress" ]
          /\ result'.status = "success"
          /\ result'.session = files'[f]
          /\ DOMAIN files' = DOMAIN files \cup {f}
          /\ \A g \in DOMAIN files : g # f => files'[g] = files[g]
      ]_vars

\* C6 witness: start over a record that had advanced and held a completed module.
StartOverwritesWitness ==
    /\ IsSessionCall(call) /\ call.action = "start"
    /\ CallFile(call) \in DOMAIN before.files
    /\ before.files[CallFile(call)].current_module > 0
    /\ before.files[CallFile(call)].modules_completed # << >>
    /\ files[CallFile(call)].modules_completed = << >>

\* C7: 'get_current' changes no file; it returns status success with the
\* stored record when there is one, and with session = None when there is none.
GetCurrentIsPureRead ==
    [][ (IsSessionCall(call') /\ call'.action = "get_current") =>
          LET f == CallFile(call') IN
          /\ files' = files
          /\ lessons' = lessons
          /\ result'.status = "success"
          /\ f \in DOMAIN files => result'.session = files[f]
          /\ f \notin DOMAIN files => result'.session = [ none |-> TRUE ]
      ]_vars

\* C7 witness: get_current for a pair without record while another pair has one.
GetCurrentIsPureReadWitness ==
    /\ IsSessionCall(call) /\ call.action = "get_current"
    /\ CallFile(call) \notin DOMAIN before.files
    /\ before.files # << >>
    /\ files = before.files
    /\ result.status = "success"
    /\ result.session = None

\* C7, the other case: get_current returning a stored record that has advanced.
GetCurrentReturnsRecord ==
    /\ IsSessionCall(call) /\ call.action = "get_current"
    /\ CallFile(call) \in DOMAIN files
    /\ result.session = files[CallFile(call)]
    /\ result.session.current_module > 0

\* C8: get_progress_summary returns status success; each tool name written
\* for the user has an entry with as many milestones as track_progress calls
\* named it, tools_count is the number of tool names written, and a user
\* without any write gets tools_count = 0 and an empty tools mapping.
ProgressRoundTrip ==
    call.op = "get_progress_summary" =>
        LET written == { t \in ProgressTools :
                           <<call.user_id, t>> \in DOMAIN tracked }
        IN
        /\ result.status = "success"
        /\ result.tools_count = Cardinality(written)
        /\ DOMAIN result.tools = written
        /\ \A t \in written :
              Len(result.tools[t].milestones) = tracked[<<call.user_id, t>>]
        /\ written = {} => result.tools = << >>

\* C8 witness: a summary of two tools, one of them written twice.
ProgressRoundTripWitness ==
    /\ call.op = "get_progress_summary"
    /\ result.status = "success"
    /\ result.tools_count = 2
    /\ \E t \in DOMAIN result.tools : Len(result.tools[t].milestones) = 2

\* C8, the other case: the summary of a user without progress file, while
\* another user has one.
ProgressSummaryOfNoStore ==
    /\ call.op = "get_progress_summary"
    /\ ProgressFile(call.user_id) \notin DOMAIN files
    /\ files # << >>
    /\ result.tools_count = 0

\* C9: no step removes a progress file, a tool entry or a milestone, reorders
\* milestones or changes a 'started' value; a tool entry appears only through
\* a track_progress call naming that tool, and such a call adds exactly one
\* milestone, the one given, at the end of that tool's sequence and leaves
\* the user's other tools as they are.
ProgressIsAppendOnly ==
    [][ /\ \A pf \in ProgressFiles(files) :
             /\ pf \in DOMAIN files'
             /\ \A k \in DOMAIN files[pf].tools :
                   /\ k \in DOMAIN files'[pf].tools
                   /\ files'[pf].tools[k].started = files[pf].tools[k].started
                   /\ IsPrefix(files[pf].tools[k].milestones,
                               files'[pf].tools[k].milestones)
        /\ \A pf \in ProgressFiles(files') :
             \A k \in DOMAIN files'[pf].tools :
                LET old == IF pf \in DOMAIN files /\ k \in DOMAIN files[pf].tools
                           THEN files[pf].tools[k].milestones ELSE << >>
                    new == files'[pf].tools[k].milestones
                    named == /\ call'.op = "track_progress"
                             /\ pf = ProgressFile(call'.user_id)
                             /\ k = call'.tool_name
                IN
                /\ named =>
                     /\ Len(new) = Len(old) + 1
                     /\ new[Len(new)].milestone = call'.milestone
                     /\ new[Len(new)].completed = call'.completed
                     /\ result'.status = "success"
                     /\ result'.total_milestones = Len(new)
                /\ ~ named =>
                     /\ pf \in DOMAIN files /\ k \in DOMAIN files[pf].tools
                     /\ new = old
      ]_vars

\* C9 witness: a milestone added to a tool that had one, next to another tool.
ProgressIsAppendOnlyWitness ==
    /\ call.op = "track_progress"
    /\ LET pf == ProgressFile(call.user_id) IN
       /\ pf \in DOMAIN before.files
       /\ call.tool_name \in DOMAIN before.files[pf].tools
       /\ Len(before.files[pf].tools[call.tool_name].milestones) = 1
       /\ Len(files[pf].tools[call.tool_name].milestones) = 2
       /\ Cardinality(DOMAIN files[pf].tools) = 2

\* C10 as claimed: for any tool name, create_tool_folder returns "created"
\* with an empty file list when the folder is absent; when the folder is
\* there it returns "exists", reports the names in the folder and leaves the
\* tree as it is; it never changes a saved file.
CreateToolFolderIdempotent ==
    [][ call'.op = "create_tool_folder" =>
          LET folder_path == FolderPath(call'.tool_name) IN
          /\ ~ PathExists(lessons, folder_path) =>
                /\ result'.status = "created"
                /\ result'.existing_files = {}
                /\ PathExists(lessons', folder_path)
          /\ PathExists(lessons, folder_path) =>
                /\ result'.status = "exists"
                /\ result'.existing_files = ListDir(lessons, folder_path)
                /\ lessons' = lessons
          /\ lessons'.files = lessons.files
      ]_vars

\* C10 restricted to the tool names whose folder name is not empty: what the
\* code does keep of the claim.
CreateNamedToolFolderIdempotent ==
    [][ (call'.op = "create_tool_folder" /\ FolderName(call'.tool_name) # << >>) =>
          LET folder_path == FolderPath(call'.tool_name) IN
          /\ ~ PathExists(lessons, folder_path) =>
                /\ result'.status = "created"
                /\ result'.existing_files = {}
                /\ PathExists(lessons', folder_path)
          /\ PathExists(lessons, folder_path) =>
                /\ result'.status = "exists"
                /\ result'.existing_files = ListDir(lessons, folder_path)
                /\ lessons' = lessons
          /\ lessons'.files = lessons.files
      ]_vars

\* A second call for a folder that got a file after the first call.
CreateNamedToolFolderAgain ==
    /\ call.op = "create_tool_folder"
    /\ FolderName(call.tool_name) # << >>
    /\ result.status = "exists"
    /\ result.existing_files # {}
    /\ lessons = before.lessons

\* C11: after any saves, read_from_tool_folder(tool, filename) returns
\* 'success' with the content of the most recent save made to that file name
\* under any tool name with the same normalized slug; when there was no such
\* save it returns 'not_found' with content null and creates nothing; and
\* save_to_tool_folder succeeds and leaves its content in the file whether or
\* not the folder existed before.
ReadReturnsLastSave ==
    /\ call.op = "read_from_tool_folder" =>
          /\ lessons = before.lessons
          /\ IF SaveKey(call) \in DOMAIN saved
             THEN /\ result.status = "success"
                  /\ result.content = saved[SaveKey(call)].content
             ELSE /\ result.status = "not_found"
                  /\ result.content = None
    /\ call.op = "save_to_tool_folder" =>
          /\ result.status = "success"
          /\ result.file_path \in DOMAIN lessons.files
          /\ lessons.files[result.file_path] = call.content
          /\ \A q \in DOMAIN before.lessons.files :
                q # result.file_path =>
                  /\ q \in DOMAIN lessons.files
                  /\ lessons.files[q] = before.lessons.files[q]

\* A read under one name returns what the last save wrote under another name
\* of the same folder, over an earlier content of the same file.
ReadReturnsLastSaveWitness ==
    /\ call.op = "read_from_tool_folder"
    /\ SaveKey(call) \in DOMAIN saved
    /\ saved[SaveKey(call)].tool_name # call.tool_name
    /\ result.status = "success"
    /\ result.content = "text 2"

\* A read of a file never saved, in a folder that holds another file.
ReadOfNoSaveWitness ==
    /\ call.op = "read_from_tool_folder"
    /\ SaveKey(call) \notin DOMAIN saved
    /\ \E k \in DOMAIN saved : k[1] = SaveKey(call)[1]
    /\ result.status = "not_found"

\* The successful track_progress calls of a user under the tool names of one
\* normalized slug.
RECURSIVE TrackedUnder(_, _, _)
TrackedUnder(user_id, slug, keys) ==
    IF keys = {} THEN 0
    ELSE LET k == CHOOSE x \in keys : TRUE
         IN  (IF k[1] = user_id /\ NormalizedSlug(k[2]) = slug
              THEN tracked[k] ELSE 0)
             + TrackedUnder(user_id, slug, keys \ {k})

\* C12: the three stores key their data by the same normalized slug: for two
\* tool names with equal normalized slug, the session started under one is the
\* session get_current returns under the other, the milestones tracked under
\* one are counted in the tool entry of the other, and the lesson file saved
\* under one is the file read under the other.
SameSlugSameRecords ==
    /\ (IsSessionCall(call) /\ call.action = "get_current"
         /\ \E f \in SessionFiles(before.files) :
               /\ before.files[f].user_id = call.user_id
               /\ NormalizedSlug(before.files[f].tool_name)
                     = NormalizedSlug(call.tool_name))
        => result.session # None
    /\ call.op = "track_progress" =>
          result.total_milestones
            = TrackedUnder(call.user_id, NormalizedSlug(call.tool_name),
                           DOMAIN tracked)
    /\ (call.op = "read_from_tool_folder" /\ SaveKey(call) \in DOMAIN saved)
        => /\ result.status = "success"
           /\ result.content = saved[SaveKey(call)].content

\* The two stores that do not: a session record stored under one spelling
\* while get_current under another spelling of the same slug finds none.
SessionSlugKeepsHyphens ==
    /\ IsSessionCall(call) /\ call.action = "get_current"
    /\ result.session = None
    /\ \E f \in SessionFiles(files) :
          /\ files[f].user_id = call.user_id
          /\ NormalizedSlug(files[f].tool_name) = NormalizedSlug(call.tool_name)

\* Two tool entries of one progress file under one normalized slug.
ProgressKeyedByRawName ==
    \E f \in ProgressFiles(files) :
        \E k1, k2 \in DOMAIN files[f].tools :
            k1 # k2 /\ NormalizedSlug(k1) = NormalizedSlug(k2)

\* The file name module_{n}.md and the place lessons/{normalized slug}/ of a
\* module file, for the module numbers of a bounded run.
ExpectedModuleFile(n) ==
    CASE n = 1 -> << "module_", "1", ".md" >>
      [] n = 2 -> << "module_", "2", ".md" >>

ExpectedModulePath(tool_name, n) ==
    IF NormalizedSlug(tool_name) = << >>
    THEN << <<"lessons">>, ExpectedModuleFile(n) >>
    ELSE << <<"lessons">>, NormalizedSlug(tool_name), ExpectedModuleFile(n) >>

\* The sections of a module file in their order: each header directly
\* followed by its text, and the footer after the quiz.
Places(content, piece) == { i \in 1..Len(content) : content[i] = piece }

SectionsInOrder(content, lesson, examples, quiz) ==
    \E i \in Places(content, "## Lesson") :
      \E j \in Places(content, "## Code Examples") :
        \E k \in Places(content, "## Quiz") :
          \E m \in Places(content, "*Generated: ") :
            /\ i + 1 < j /\ j + 1 < k /\ k + 1 < m
            /\ content[i + 1] = lesson
            /\ content[j + 1] = examples
            /\ content[k + 1] = quiz

\* C13: assemble_module_file saves exactly one file, module_{n}.md in the
\* folder of the tool's normalized slug, holding the Lesson header and the
\* lesson, the Code Examples header and the examples, the Quiz header and the
\* quiz, in that order, then the footer; empty blobs are accepted; a module
\* number assembled again replaces the earlier file.
AssembleSavesOneModuleFile ==
    call.op = "assemble_module_file" =>
        LET path == ExpectedModulePath(call.tool_name, call.module_number) IN
        /\ result.status = "success"
        /\ result.file_path = path
        /\ DOMAIN lessons.files = (DOMAIN before.lessons.files) \cup {path}
        /\ \A q \in DOMAIN before.lessons.files :
              q # path => lessons.files[q] = before.lessons.files[q]
        /\ SectionsInOrder(lessons.files[path], call.lesson, call.examples,
                           call.quiz)

\* A module assembled again with empty blobs, over a file of another content,
\* beside another module file.
AssembleSavesOneModuleFileWitness ==
    /\ call.op = "assemble_module_file"
    /\ call.lesson = "" /\ call.examples = "" /\ call.quiz = ""
    /\ result.file_path \in DOMAIN before.lessons.files
    /\ before.lessons.files[result.file_path] # lessons.files[result.file_path]
    /\ Cardinality(DOMAIN lessons.files) = 2

\* C14: the absolute_path that assemble_module_file adds to its result is the
\* place of the file it has just saved: the file_path of save_to_tool_folder.
AbsolutePathIsSavedFile ==
    call.op = "assemble_module_file" =>
        /\ result.absolute_path = result.file_path
        /\ result.absolute_path \in DOMAIN lessons.files

\* The absolute_path reported for a tool name that is not its own folder name
\* designates nothing.
AbsolutePathOfNoFile ==
    /\ call.op = "assemble_module_file"
    /\ result.status = "success"
    /\ ~ PathExists(lessons, result.absolute_path)

\* A call in which a file-system step failed.
HasFault(c) == "fault" \in DOMAIN c

\* A call, made without failure, for a lesson file or a session record that
\* does not exist.
ReadOfMissingFile(c) ==
    /\ c.op = "read_from_tool_folder" /\ ~ HasFault(c)
    /\ ~ PathExists(before.lessons, PathJoin(FolderPath(c.tool_name), c.filename))

CallWithoutSession(c, actions) ==
    /\ IsSessionCall(c) /\ ~ HasFault(c)
    /\ c.action \in actions
    /\ ~ Exists(before.files, CallFile(c))

FailedStepIsReturned ==
    /\ result.status # "raised"
    /\ HasFault(call) =>
          /\ result.status = "error"
          /\ "error_message" \in DOMAIN result

AssembleFailureIsReturned ==
    /\ HasFault(call) /\ call.op = "assemble_module_file"
    /\ call.fault = "write"
    /\ result.status = "error"
    /\ "absolute_path" \in DOMAIN result

\* The three kinds of line the loop keeps for itself, as it matches them: the
\* words exit, quit and help in any letter case and not trimmed; a line of
\* white space only.
ExitLines ==
    { <<"e", "x", "i", "t">>, <<"q", "u", "i", "t">>, <<"Q", "U", "I", "T">> }

HelpLines == { <<"h", "e", "l", "p">>, <<"H", "e", "l", "p">> }

BlankLines == { << >>, <<" ">> }

IsForwardedLine(line) == line \notin ExitLines \cup HelpLines \cup BlankLines

LastRead(c) == c.read[Len(c.read)]

\* C16: the loop keeps exactly three kinds of line from the orchestrator:
\* help (usage printed, the loop continues), exit or quit (the loop stops and
\* reads nothing more) and a blank line (ignored, the loop continues); every
\* other line is forwarded as typed, exactly once, before the next line is
\* read.
OnlyOtherLinesAreForwarded ==
    /\ [](cli.forwarded = SelectSeq(cli.read, IsForwardedLine))
    /\ [](\A i \in 1..Len(cli.read) :
            cli.read[i] \in ExitLines => i = Len(cli.read) /\ cli.state = "stopped")
    /\ [][cli.pc = "turn" => cli'.read = cli.read]_vars
    /\ [][cli'.read # cli.read =>
            /\ cli'.read = Append(cli.read, LastRead(cli'))
            /\ LastRead(cli') \in HelpLines =>
                  cli' = [cli EXCEPT !.read = cli'.read, !.printed = "usage"]
            /\ LastRead(cli') \in BlankLines =>
                  cli' = [cli EXCEPT !.read = cli'.read]
            /\ LastRead(cli') \in ExitLines =>
                  /\ cli'.state = "stopped"
                  /\ cli'.forwarded = cli.forwarded
            /\ IsForwardedLine(LastRead(cli')) =>
                  /\ cli'.forwarded = Append(cli.forwarded, LastRead(cli'))
                  /\ cli'.pc = "turn"
                  /\ cli'.state = "running"]_vars

\* Help, a line of one space, then " exit", which is forwarded as typed and
\* answered.
OnlyOtherLinesAreForwardedWitness ==
    /\ cli.read = << <<"H", "e", "l", "p">>, <<" ">>, <<" ", "e", "x", "i", "t">> >>
    /\ cli.forwarded = << <<" ", "e", "x", "i", "t">> >>
    /\ cli.pc = "input"
    /\ cli.printed = "response"

\* QUIT stops the loop after a forwarded line.
QuitStopsTheLoop ==
    /\ cli.state = "stopped"
    /\ LastRead(cli) = <<"Q", "U", "I", "T">>
    /\ Len(cli.forwarded) = 1

\* C17: an error raised during a turn is caught and reported and the loop
\* goes on to read the next line; the loop leaves its running state only
\* through an exit or quit line.
LoopStopsOnlyOnExit ==
    /\ [][cli'.errors # cli.errors =>
            /\ cli'.state = "running"
            /\ cli'.pc = "input"
            /\ cli'.printed = "error"]_vars
    /\ [][(cli.state = "running" /\ cli'.state # "running") =>
            /\ cli'.read # cli.read
            /\ LastRead(cli') \in ExitLines]_vars

\* The part of C17 about the turn: an error of a turn is caught, and the loop
\* is ready for the next line.
TurnErrorIsCaught ==
    [][cli'.errors # cli.errors =>
         /\ cli'.state = "running"
         /\ cli'.pc = "input"
         /\ cli'.printed = "error"]_vars

\* The loop left by the end of the input stream, after a turn that failed.
LoopLeftByEndOfInput ==
    /\ cli.state = "crashed"
    /\ cli.errors = 1
    /\ \A i \in 1..Len(cli.read) : cli.read[i] \notin ExitLines

\* What get_current returns for a pair: the stored record or None.
ObservedSession(fs, user_id, tool_name) ==
    IF Exists(fs, SessionFile(user_id, tool_name))
    THEN ReadJson(fs, SessionFile(user_id, tool_name))
    ELSE None

\* C18: session records of distinct (user, tool slug) pairs are independent:
\* a call made for one pair does not create, overwrite or change the record
\* that get_current returns for a pair with another user or another
\* normalized slug, underscores in user ids and tool names included.
SessionsAreIndependent ==
    [][IsSessionCall(call') =>
         \A user_id \in UserIds, tool_name \in SessionTools :
             (\/ user_id # call'.user_id
              \/ NormalizedSlug(tool_name) # NormalizedSlug(call'.tool_name))
             => ObservedSession(files', user_id, tool_name)
                  = ObservedSession(files, user_id, tool_name)]_vars

\* get_current for one user returns the record another user started.
SessionOfAnotherUser ==
    /\ IsSessionCall(call) /\ call.action = "get_current"
    /\ result.session # None
    /\ result.session.user_id # call.user_id

\* C19: every stored session record has current_module at least 0, every
\* entry of modules_completed has a module_number between 0 and
\* current_module, and the module_numbers do not decrease along the sequence.
CompletedModulesAreOrdered ==
    \A f \in SessionFiles(files) :
        LET session == files[f]
            done == session.modules_completed
        IN
        /\ session.current_module >= 0
        /\ \A i \in 1..Len(done) :
              /\ done[i].module_number >= 0
              /\ done[i].module_number <= session.current_module
        /\ \A i, j \in 1..Len(done) :
              i < j => done[i].module_number <= done[j].module_number

\* A record with module 0 and then module 1 completed.
CompletedModulesAreOrderedWitness ==
    \E f \in SessionFiles(files) :
        /\ Len(files[f].modules_completed) = 2
        /\ files[f].modules_completed[1].module_number = 0
        /\ files[f].modules_completed[2].module_number = 1
        /\ files[f].current_module = 1

====
